---------------------------- MODULE Spec2Model ----------------------------
(***************************************************************************)
(* BDE DocuSeal Service: the provider client (services/docuseal_client.py),*)
(* the notifier (services/email_service.py) and the gateway (main.py).     *)
(*                                                                         *)
(* The specifications share the variables below:                           *)
(*   SpecClient  one DocuSealClient operation at a time, against every     *)
(*               answer the provider can give;                             *)
(*   Spec        the webhook endpoint and the background notification      *)
(*               tasks it schedules;                                       *)
(*   SpecHealth  the /health endpoint and its two probes;                  *)
(*   SpecGateway the request/response endpoints over the client;           *)
(*   SpecLive    SpecGateway and /health with the scheduling's fairness.   *)
(***************************************************************************)
EXTENDS Integers, Sequences, FiniteSets, TLC

VARIABLES
    client,          \* the process-wide DocuSealClient (main.py:52)
    invocation,      \* SpecClient: the client operation last invoked, with the provider's answer
    returned,        \* SpecClient: what that invocation returned or raised
    http_requests,   \* SpecClient: outbound HTTP requests that invocation issued
    smtp_sessions,   \* SpecClient: the SMTP sessions that invocation attempted, each its trace
    gw,              \* SpecGateway: the request the gateway is serving, and its response
    events,          \* Spec: webhook events delivered so far, in order
    responses,       \* Spec: the response sent for each delivered event
    tasks,           \* Spec: background tasks added by add_task, in order
    emails,          \* Spec: calls of send_completion_email, in order
    hpc,             \* SpecHealth: position of the /health handler
    docuseal_status, \* SpecHealth: health_check's local docuseal_status
    email_status,    \* SpecHealth: health_check's local email_status
    health_response, \* SpecHealth: what /health answered
    probe_log,       \* SpecHealth: start and end of each probe, in order
    health_requests, \* SpecHealth: outbound HTTP requests issued by the provider probe
    health_checks    \* SpecHealth: /health requests served so far

vars == <<client, invocation, returned, http_requests, smtp_sessions, gw, events, responses, tasks,
          emails, hpc, docuseal_status, email_status, health_response, probe_log,
          health_requests, health_checks>>

-----------------------------------------------------------------------------
(* Python values.  A value that may be None, or whose type the provider    *)
(* decides, carries its type; the field holding the payload is named       *)
(* after the type.                                                         *)

None == [t |-> "NoneType"]
Str(s) == [t |-> "str", s |-> s]
List(l) == [t |-> "list", l |-> l]
Dict(d) == [t |-> "dict", d |-> d]
PyInt(i) == [t |-> "int", i |-> i]

\* A dict from a set of <<key, value>> pairs with distinct keys.
DictOf(pairs) ==
    Dict([k \in {p[1] : p \in pairs} |-> (CHOOSE p \in pairs : p[1] = k)[2]])

\* bool(value): None, "", [] and {} are falsy.
Truthy(v) ==
    CASE v.t = "NoneType" -> FALSE
      [] v.t = "str" -> v.s # ""
      [] v.t = "list" -> Len(v.l) > 0
      [] v.t = "dict" -> DOMAIN v.d # {}

\* The outcome of evaluating an expression or awaiting a call.
Return(v) == [raised |-> FALSE, value |-> v]
Raise(e) == [raised |-> TRUE, exc |-> e]

Exc(type, msg) == [type |-> type, msg |-> msg]
HTTPException(status_code, detail) ==
    [type |-> "HTTPException", status_code |-> status_code, detail |-> detail]

\* str(e): starlette's HTTPException prints "<status_code>: <detail>".
StrOfExc(e) ==
    IF e.type = "HTTPException"
    THEN ToString(e.status_code) \o ": " \o e.detail
    ELSE e.msg

\* isinstance(e, httpx.TimeoutException)
IsTimeoutException(e) == e.type \in {"ConnectTimeout", "ReadTimeout"}

\* obj.get(key, default)
PyGet(obj, key, default) ==
    IF obj.t = "dict"
    THEN Return(IF key \in DOMAIN obj.d THEN obj.d[key] ELSE default)
    ELSE Raise(Exc("AttributeError",
                   "'" \o obj.t \o "' object has no attribute 'get'"))

\* obj[0]
PyFirst(obj) ==
    CASE obj.t = "list" ->
            IF Len(obj.l) > 0 THEN Return(obj.l[1])
            ELSE Raise(Exc("IndexError", "list index out of range"))
      [] obj.t = "str" ->
            IF Len(obj.s) > 0 THEN Return(Str(SubSeq(obj.s, 1, 1)))
            ELSE Raise(Exc("IndexError", "string index out of range"))
      [] obj.t = "dict" ->
            IF 0 \in DOMAIN obj.d THEN Return(obj.d[0])
            ELSE Raise(Exc("KeyError", "0"))
      [] OTHER -> Raise(Exc("TypeError",
                            "'" \o obj.t \o "' object is not subscriptable"))

\* result.get(outer, [{}])[0].get(inner)
FirstEntryField(result, outer, inner) ==
    LET entries == PyGet(result, outer, List(<<Dict(<<>>)>>)) IN
    IF entries.raised THEN entries
    ELSE LET first == PyFirst(entries.value) IN
         IF first.raised THEN first
         ELSE PyGet(first.value, inner, None)

\* result.get(outer, {}).get(inner)
NestedField(result, outer, inner) ==
    LET nested == PyGet(result, outer, Dict(<<>>)) IN
    IF nested.raised THEN nested ELSE PyGet(nested.value, inner, None)

\* sub in s, for strings
Contains(s, sub) ==
    \E i \in 1..(Len(s) - Len(sub) + 1) : SubSeq(s, i, i + Len(sub) - 1) = sub

-----------------------------------------------------------------------------
(* The provider, as the client sees it: an awaited request raises or       *)
(* returns a response with a status code, a body text and the body's       *)
(* parse.                                                                  *)

Undecodable == [t |-> "undecodable"]

Response(status_code, text, json) ==
    [status_code |-> status_code, text |-> text, json |-> json]

\* response.json()
ResponseJson(response) ==
    IF response.json = Undecodable
    THEN Raise(Exc("JSONDecodeError", "Expecting value: line 1 column 1 (char 0)"))
    ELSE Return(response.json)

HTTP_OK == 200
HTTP_CREATED == 201
HTTP_GATEWAY_TIMEOUT == 504
HTTP_INTERNAL_ERROR == 500
HTTP_NOT_FOUND == 404

\* Requests that end without a response: timeouts and other transport errors.
\* str() of a transport error is empty when the underlying error has no text.
TransportFailures ==
    { Exc("ReadTimeout", ""),
      Exc("ConnectError", "All connection attempts failed"),
      Exc("ReadError", "") }

StatusCodes == {200, 201, 404, 500, 504}

\* Bodies that are not JSON.
PlainBodies == { [text |-> "", json |-> Undecodable],
                 [text |-> "Not Found", json |-> Undecodable] }

Optional(key, values) == {{}} \cup {{<<key, v>>} : v \in values}

\* Bodies of a created submission: the id and the submitters, each optional.
SubmittersValues ==
    { List(<<>>),
      List(<<Dict(<<>>)>>),
      List(<<DictOf({<<"embed_src", Str("https://x/9")>>,
                     <<"email", Str("a@b.com")>>})>>) }

CreatedJson ==
    { DictOf(id \cup subs) :
        id \in Optional("id", {Str("sub_9")}),
        subs \in Optional("submitters", SubmittersValues) }

\* Bodies of a submission read.
SubmissionJson ==
    { DictOf(st \cup docs \cup subs \cup tmpl) :
        st \in { {<<"status", Str("pending")>>},
                 {<<"status", Str("completed")>>,
                  <<"completed_at", Str("2024-01-15T10:30:00Z")>>} },
        docs \in Optional("documents",
                          {List(<<>>), List(<<DictOf({<<"url", Str("https://provider/doc")>>})>>)}),
        subs \in Optional("submitters",
                          {List(<<>>), List(<<DictOf({<<"email", Str("a@b.com")>>})>>)}),
        tmpl \in Optional("template", {DictOf({<<"name", Str("Customer Setup")>>})}) }

JsonBodies(jsons) == { [text |-> "{...}", json |-> j] : j \in jsons }

\* Every answer to one request whose JSON bodies are `jsons`.
Answers(jsons) ==
    { Raise(e) : e \in TransportFailures }
    \cup { Return(Response(c, b.text, b.json)) :
             c \in StatusCodes, b \in PlainBodies \cup JsonBodies(jsons) }

-----------------------------------------------------------------------------
(* DocuSealClient                                                          *)

RECURSIVE rstrip_slash(_)
rstrip_slash(s) ==
    IF Len(s) > 0 /\ SubSeq(s, Len(s), Len(s)) = "/"
    THEN rstrip_slash(SubSeq(s, 1, Len(s) - 1))
    ELSE s

\* DocuSealClient.__init__: an empty token is warned about, never refused.
DocuSealClient(base_url, api_token) ==
    Return([base_url |-> rstrip_slash(base_url), api_token |-> api_token, timeout |-> 30])

\* What an operation did: its return value or exception, and the number of
\* outbound HTTP requests it issued.
Effect(ret, requests) == [ret |-> ret, requests |-> requests]

\* DocuSealClient.health_check past its token guard: the authenticated read of
\* /api/templates and the report made of its outcome.  The healthy report's
\* response_time_ms and api_version are measurements, left out.
health_check_probe(self, net) ==
    IF net.raised
    THEN IF IsTimeoutException(net.exc)
         THEN Effect(Return([status |-> "error", error |-> "Connection timeout"]), 1)
         ELSE Effect(Return([status |-> "error", error |-> StrOfExc(net.exc)]), 1)
    ELSE IF net.value.status_code = HTTP_OK
         THEN Effect(Return([status |-> "healthy"]), 1)
         ELSE Effect(Return([status |-> "error",
                             error |-> "HTTP " \o ToString(net.value.status_code)
                                       \o ": " \o net.value.text]), 1)

\* A health_check that has lost its token guard.
docuseal_health_check_unguarded(self, net) == health_check_probe(self, net)

\* DocuSealClient.health_check, `net` being the provider's answer if asked.
docuseal_health_check(self, net) ==
    IF self.api_token = ""
    THEN Effect(Return([status |-> "error", error |-> "API token not configured"]), 0)
    ELSE health_check_probe(self, net)

\* The body of create_submission's try block.
create_submission_try(self, net) ==
    IF net.raised THEN net
    ELSE IF net.value.status_code = HTTP_CREATED
         THEN LET result == ResponseJson(net.value) IN
              IF result.raised THEN result
              ELSE LET id == PyGet(result.value, "id", None)
                       url == FirstEntryField(result.value, "submitters", "embed_src")
                   IN  IF id.raised THEN id
                       ELSE IF url.raised THEN url
                       ELSE Return([success |-> TRUE,
                                    submission_id |-> id.value,
                                    signing_url |-> url.value,
                                    email_sent |-> TRUE])
         ELSE Return([success |-> FALSE,
                      error |-> "HTTP " \o ToString(net.value.status_code)
                                \o ": " \o net.value.text])

\* DocuSealClient.create_submission
create_submission(self, net) ==
    LET body == create_submission_try(self, net) IN
    IF ~body.raised THEN Effect(body, 1)
    ELSE IF IsTimeoutException(body.exc)
         THEN Effect(Return([success |-> FALSE, error |-> "DocuSeal API timeout"]), 1)
         ELSE Effect(Return([success |-> FALSE, error |-> StrOfExc(body.exc)]), 1)

\* The body of get_submission_status's try block.
get_submission_status_try(self, net) ==
    IF net.raised THEN net
    ELSE IF net.value.status_code = HTTP_OK
         THEN LET result == ResponseJson(net.value) IN
              IF result.raised THEN result
              ELSE LET status == PyGet(result.value, "status", None)
                       completed_at == PyGet(result.value, "completed_at", None)
                       document_url == FirstEntryField(result.value, "documents", "url")
                       signer_email == FirstEntryField(result.value, "submitters", "email")
                       template_name == NestedField(result.value, "template", "name")
                   IN  CASE status.raised -> status
                         [] completed_at.raised -> completed_at
                         [] document_url.raised -> document_url
                         [] signer_email.raised -> signer_email
                         [] template_name.raised -> template_name
                         [] OTHER ->
                              Return([status |-> status.value,
                                      completed_at |-> completed_at.value,
                                      document_url |-> document_url.value,
                                      signer_email |-> signer_email.value,
                                      template_name |-> template_name.value])
         ELSE Raise(HTTPException(net.value.status_code,
                                  "DocuSeal API error: " \o net.value.text))

\* DocuSealClient.get_submission_status
get_submission_status(self, net) ==
    LET body == get_submission_status_try(self, net) IN
    IF ~body.raised THEN Effect(body, 1)
    ELSE IF IsTimeoutException(body.exc)
         THEN Effect(Raise(HTTPException(HTTP_GATEWAY_TIMEOUT, "DocuSeal API timeout")), 1)
         ELSE IF body.exc.type = "HTTPException"
              THEN Effect(body, 1)
              ELSE Effect(Raise(HTTPException(HTTP_INTERNAL_ERROR,
                                              "DocuSeal error: " \o StrOfExc(body.exc))), 1)

\* A download_document that reads the document whatever the status says.
download_document_any_status(self, submission_id, net, doc_net) ==
    LET read == get_submission_status(self, net) IN
    IF read.ret.raised THEN Effect(Return(None), read.requests)
    ELSE Effect(Return(None), read.requests + 1)

\* DocuSealClient.download_document: `net` answers the status read, `doc_net`
\* the read of the document, if it is made.  A document URL that is no string
\* raises before any request is sent.
download_document(self, submission_id, net, doc_net) ==
    LET read == get_submission_status(self, net) IN
    IF read.ret.raised THEN Effect(Return(None), read.requests)
    ELSE LET status == read.ret.value
             document_url == status.document_url
         IN  IF status.status # Str("completed") THEN Effect(Return(None), read.requests)
             ELSE IF ~Truthy(document_url) THEN Effect(Return(None), read.requests)
             ELSE IF document_url.t # "str" THEN Effect(Return(None), read.requests)
             ELSE IF doc_net.raised THEN Effect(Return(None), read.requests + 1)
             ELSE IF doc_net.value.status_code = HTTP_OK
                  THEN Effect(Return([download_url |-> document_url,
                                      filename |-> "document_" \o submission_id \o ".pdf",
                                      size_bytes |-> Len(doc_net.value.text),
                                      content_type |-> "application/pdf"]),
                              read.requests + 1)
                  ELSE Effect(Return(None), read.requests + 1)

\* len(obj)
PyLen(obj) ==
    CASE obj.t = "list" -> Return(PyInt(Len(obj.l)))
      [] obj.t = "str" -> Return(PyInt(Len(obj.s)))
      [] obj.t = "dict" -> Return(PyInt(Cardinality(DOMAIN obj.d)))
      [] OTHER -> Raise(Exc("TypeError", "object of type '" \o obj.t \o "' has no len()"))

\* One element of list_templates' comprehension.
template_summary(template) ==
    LET schema == PyGet(template, "schema", List(<<>>)) IN
    IF schema.raised THEN schema
    ELSE LET fields_count == PyLen(schema.value) IN
         IF fields_count.raised THEN fields_count
         ELSE Return(DictOf({<<"id", PyGet(template, "id", None).value>>,
                             <<"name", PyGet(template, "name", None).value>>,
                             <<"description", PyGet(template, "description", None).value>>,
                             <<"fields_count", fields_count.value>>,
                             <<"created_at", PyGet(template, "created_at", None).value>>}))

\* The body of list_templates' try block.  Iterating a dict yields its keys,
\* which are strings and have no get.
list_templates_try(self, net) ==
    IF net.raised THEN net
    ELSE IF net.value.status_code = HTTP_OK
         THEN LET templates == ResponseJson(net.value) IN
              IF templates.raised THEN templates
              ELSE CASE templates.value.t = "list" ->
                          LET l == templates.value.l IN
                          IF \E i \in 1..Len(l) : template_summary(l[i]).raised
                          THEN template_summary(
                                  l[CHOOSE i \in 1..Len(l) :
                                       /\ template_summary(l[i]).raised
                                       /\ \A j \in 1..(i - 1) : ~template_summary(l[j]).raised])
                          ELSE Return(List([i \in 1..Len(l) |-> template_summary(l[i]).value]))
                     [] templates.value.t = "dict" ->
                          IF DOMAIN templates.value.d = {} THEN Return(List(<<>>))
                          ELSE Raise(Exc("AttributeError", "'str' object has no attribute 'get'"))
                     [] OTHER ->
                          Raise(Exc("TypeError",
                                    "'" \o templates.value.t \o "' object is not iterable"))
         ELSE Return(List(<<>>))

\* A list_templates that asks once more when the first request fails.
list_templates_retry(self, net) ==
    LET body == list_templates_try(self, net) IN
    IF body.raised THEN Effect(Return(List(<<>>)), 2) ELSE Effect(body, 1)

\* DocuSealClient.list_templates
list_templates(self, net) ==
    LET body == list_templates_try(self, net) IN
    IF body.raised THEN Effect(Return(List(<<>>)), 1) ELSE Effect(body, 1)

\* A get_template whose handler is missing.
get_template_uncaught(self, net) ==
    IF net.raised THEN Effect(net, 1)
    ELSE IF net.value.status_code = HTTP_OK
         THEN Effect(ResponseJson(net.value), 1)
         ELSE Effect(Return(None), 1)

\* DocuSealClient.get_template
get_template(self, net) ==
    IF net.raised THEN Effect(Return(None), 1)
    ELSE IF net.value.status_code = HTTP_OK
         THEN LET template == ResponseJson(net.value) IN
              IF template.raised THEN Effect(Return(None), 1) ELSE Effect(template, 1)
         ELSE Effect(Return(None), 1)

\* DocuSealClient.cancel_submission
cancel_submission(self, net) ==
    IF net.raised THEN Effect(Return(FALSE), 1)
    ELSE Effect(Return(net.value.status_code = HTTP_OK), 1)

-----------------------------------------------------------------------------
(* EmailService                                                            *)

\* The EmailService main.py constructs (main.py:57): the defaults of its
\* environment variables, credentials left out.
email_service ==
    [smtp_host |-> "smtp.gmail.com", smtp_port |-> 587,
     from_email |-> "transaction.coordinator.agent@gmail.com"]

\* What the mail server does to one session: the step that fails, if any,
\* and str() of the exception smtplib raises there.
SmtpOk == [fails |-> "none", error |-> ""]
SmtpOutcomes ==
    { SmtpOk,
      [fails |-> "connect", error |-> "[Errno 111] Connection refused"],
      [fails |-> "starttls", error |-> "STARTTLS extension not supported by server."],
      [fails |-> "login", error |-> "(535, b'5.7.8 Username and Password not accepted')"],
      [fails |-> "send_message", error |-> "Connection unexpectedly closed"] }

\* The commands of `steps` a session runs when the server fails `fails`: up to
\* and including the failing one.
RECURSIVE commands_run(_, _)
commands_run(steps, fails) ==
    IF steps = <<>> THEN <<>>
    ELSE IF Head(steps) = fails THEN <<Head(steps)>>
    ELSE <<Head(steps)>> \o commands_run(Tail(steps), fails)

InSeq(x, seq) == \E i \in 1..Len(seq) : seq[i] = x

\* A session that quits only after its last step: a failing step leaves it open.
smtp_session_quit_on_success(steps, smtp) ==
    IF smtp.fails = "connect"
    THEN [ret |-> Raise(Exc("OSError", smtp.error)), trace |-> <<>>]
    ELSE IF InSeq(smtp.fails, steps)
         THEN [ret |-> Raise(Exc("SMTPException", smtp.error)),
               trace |-> <<"connect">> \o commands_run(steps, smtp.fails)]
         ELSE [ret |-> Return(None), trace |-> <<"connect">> \o steps \o <<"quit">>]

\* with smtplib.SMTP(host, port) as server: <steps>.  The constructor connects;
\* when it raises there is no session; otherwise the block's exit quits and
\* closes the session whether or not a step raised.
smtp_session(steps, smtp) ==
    IF smtp.fails = "connect"
    THEN [ret |-> Raise(Exc("OSError", smtp.error)), trace |-> <<>>]
    ELSE [ret |-> IF InSeq(smtp.fails, steps)
                  THEN Raise(Exc("SMTPException", smtp.error))
                  ELSE Return(None),
          trace |-> <<"connect">> \o commands_run(steps, smtp.fails) \o <<"quit">>]

\* What a notifier operation did: its return value, and the trace of every
\* SMTP session it attempted (an empty trace: the connection was not made).
Sent(ret, sessions) == [ret |-> ret, sessions |-> sessions]

\* EmailService.test_connection
test_connection(self, smtp) ==
    LET session == smtp_session(<<"starttls", "login">>, smtp) IN
    Sent(IF session.ret.raised
         THEN Return([status |-> "error", error |-> StrOfExc(session.ret.exc)])
         ELSE Return([status |-> "healthy"]),
         <<session.trace>>)

\* EmailService._send_email: send_message refuses a message that names no
\* recipient (To: None) after the session is open.
send_email(self, recipient_email, message, smtp) ==
    LET outcome == IF smtp.fails = "none" /\ recipient_email = None
                   THEN [fails |-> "send_message", error |-> "{}"]
                   ELSE smtp
        session == smtp_session(<<"starttls", "login", "send_message">>, outcome)
    IN  Sent(Return(~session.ret.raised), <<session.trace>>)

\* EmailService.send_completion_email: the message carries the download link
\* only when document_url is truthy; "Download: " + document_url raises for a
\* truthy value that is no string, which is caught like every other failure.
send_completion_email(self, recipient_email, submission_id, document_url, smtp) ==
    IF Truthy(document_url) /\ document_url.t # "str"
    THEN Sent(Return(FALSE), <<>>)
    ELSE send_email(self, recipient_email,
                    [submission_id |-> submission_id,
                     link |-> IF Truthy(document_url) THEN document_url ELSE None],
                    smtp)

\* EmailService.send_reminder_email: the message always carries the signing
\* link and the days pending.
send_reminder_email(self, recipient_email, submission_id, signing_url, days_pending, smtp) ==
    send_email(self, recipient_email,
               [submission_id |-> submission_id, link |-> signing_url,
                days_pending |-> days_pending],
               smtp)

-----------------------------------------------------------------------------
(* Gateway: the webhook endpoint and the background notification task      *)

EventTypes == {"form.completed", "form.viewed", "form.started", "form.archived"}

\* WebhookEventRequest (timestamp is never read)
WebhookEvents ==
    [event_type : EventTypes,
     submission_id : {"sub_1"},
     submitter_email : {None, Str("customer@example.com")},
     document_url : {None, Str("https://hook/doc")}]

\* A task that awaits the notification inline instead of scheduling it, the
\* provider timing out.
run_inline(background_tasks, submission_id, signer_email, event) ==
    Append(background_tasks,
           [submission_id |-> submission_id, signer_email |-> signer_email,
            event |-> event, pc |-> "returned", status |-> None, fetches |-> 1,
            caught |-> HTTPException(HTTP_GATEWAY_TIMEOUT, "DocuSeal API timeout")])

\* background_tasks.add_task(send_completion_notification, submission_id,
\* submitter_email): the task is queued, to run after the response is sent.
\* `event` is the position of the delivering event in `events`; `caught` is
\* the exception the task's except clause caught, None while there is none.
add_task(background_tasks, submission_id, signer_email, event) ==
    Append(background_tasks,
           [submission_id |-> submission_id, signer_email |-> signer_email,
            event |-> event, pc |-> "scheduled", status |-> None, fetches |-> 0,
            caught |-> None])

\* A handler that also notifies on "form.viewed".
handle_docuseal_webhook_on_viewed(webhook_data, background_tasks, event) ==
    [background_tasks |->
        IF webhook_data.event_type \in {"form.completed", "form.viewed"}
        THEN add_task(background_tasks, webhook_data.submission_id,
                      webhook_data.submitter_email, event)
        ELSE background_tasks,
     ret |-> Return([status |-> "processed"])]

\* handle_docuseal_webhook: nothing in its try block raises, so the
\* acknowledgement is what it returns.
handle_docuseal_webhook(webhook_data, background_tasks, event) ==
    [background_tasks |->
        IF webhook_data.event_type = "form.completed"
        THEN add_task(background_tasks, webhook_data.submission_id,
                      webhook_data.submitter_email, event)
        ELSE background_tasks,
     ret |-> Return([status |-> "processed"])]

\* A task that notifies only when the status it read is "completed".
after_status_only_completed(task, effect) ==
    IF effect.ret.raised
    THEN [task EXCEPT !.fetches = @ + effect.requests,
                      !.pc = "returned",
                      !.caught = effect.ret.exc]
    ELSE [task EXCEPT !.fetches = @ + effect.requests,
                      !.pc = IF effect.ret.value.status = Str("completed")
                             THEN "have_status" ELSE "returned",
                      !.status = effect.ret.value]

\* A task whose except clause is missing: the fault of the status read leaves it.
after_status_uncaught(task, effect) ==
    [task EXCEPT !.fetches = @ + effect.requests,
                 !.pc = IF effect.ret.raised THEN "raised" ELSE "have_status",
                 !.status = IF effect.ret.raised THEN None ELSE effect.ret.value]

\* send_completion_notification from its start to the end of the awaited
\* get_submission_status: a fault is caught and logged, and the task returns.
after_status(task, effect) ==
    IF effect.ret.raised
    THEN [task EXCEPT !.fetches = @ + effect.requests,
                      !.pc = "returned",
                      !.caught = effect.ret.exc]
    ELSE [task EXCEPT !.fetches = @ + effect.requests,
                      !.pc = "have_status",
                      !.status = effect.ret.value]

\* Keyword arguments taken from the webhook payload instead of the re-fetch.
completion_email_kwargs_from_payload(task, webhook_data) ==
    [recipient_email |-> task.signer_email,
     submission_id |-> task.submission_id,
     document_url |-> webhook_data.document_url]

\* The keyword arguments send_completion_notification passes to
\* send_completion_email; `webhook_data` is the delivering event, of which the
\* task holds only submission_id and submitter_email.
completion_email_kwargs(task, webhook_data) ==
    [recipient_email |-> task.signer_email,
     submission_id |-> task.submission_id,
     document_url |-> task.status.document_url]

\* send_completion_notification after the awaited send_completion_email: its
\* boolean result is dropped; a fault would be caught and logged.
after_email(task, sent) ==
    IF sent.raised
    THEN [task EXCEPT !.pc = "returned", !.caught = sent.exc]
    ELSE [task EXCEPT !.pc = "returned"]

-----------------------------------------------------------------------------
(* Gateway: /health                                                        *)

\* An aggregate that is healthy when either probe is.
health_report_any(docuseal, email) ==
    Return([status |-> IF docuseal.status = "healthy" \/ email.status = "healthy"
                       THEN "healthy" ELSE "degraded",
            services |-> [docuseal |-> docuseal, email |-> email]])

\* health_check's return value (the timestamp left out).
health_report(docuseal, email) ==
    Return([status |-> IF docuseal.status = "healthy" /\ email.status = "healthy"
                       THEN "healthy" ELSE "degraded",
            services |-> [docuseal |-> docuseal, email |-> email]])

\* Probes started together: the mail probe does not wait for the provider's.
email_probe_may_start_at_once(docuseal) == TRUE

\* health_check awaits docuseal_client.health_check() (main.py:85) before it
\* calls email_service.test_connection() (main.py:88): the mail probe starts
\* once docuseal_status is bound.
email_probe_may_start(docuseal) == docuseal # None

-----------------------------------------------------------------------------
(* SpecClient: the client is constructed, then its operations are invoked  *)
(* one at a time, each against any answer of the provider.                 *)

BaseUrls == {"https://docuseal.co", "https://docuseal.co/"}
ApiTokens == {"", "tok_live"}

Idle == [op |-> "none"]

ClientIdle ==
    /\ invocation = Idle
    /\ returned = Idle
    /\ http_requests = 0
    /\ smtp_sessions = <<>>

GatewayIdle == gw = [endpoint |-> "none", pc |-> "idle"]

WebhookIdle ==
    /\ events = <<>>
    /\ responses = <<>>
    /\ tasks = <<>>
    /\ emails = <<>>

HealthIdle ==
    /\ hpc = "idle"
    /\ docuseal_status = None
    /\ email_status = None
    /\ health_response = None
    /\ probe_log = <<>>
    /\ health_requests = 0
    /\ health_checks = 0

\* main.py:52: the client is built from the environment at import.
Constructed ==
    \E u \in BaseUrls, t \in ApiTokens : client = DocuSealClient(u, t).value

InitClient == Constructed /\ ClientIdle /\ GatewayIdle /\ WebhookIdle /\ HealthIdle

Invoke(op, net, effect) ==
    /\ invocation' = [op |-> op, net |-> net]
    /\ returned' = effect.ret
    /\ http_requests' = effect.requests
    /\ smtp_sessions' = <<>>

InvokeNotifier(op, smtp, sent) ==
    /\ invocation' = [op |-> op, smtp |-> smtp]
    /\ returned' = sent.ret
    /\ http_requests' = 0
    /\ smtp_sessions' = sent.sessions

ClientUnchanged ==
    UNCHANGED <<client, invocation, returned, http_requests, smtp_sessions>>
GatewayUnchanged == UNCHANGED gw
WebhookUnchanged == UNCHANGED <<events, responses, tasks, emails>>
HealthUnchanged ==
    UNCHANGED <<hpc, docuseal_status, email_status, health_response, probe_log,
                health_requests, health_checks>>

InvokeHealthCheck ==
    /\ \E net \in Answers({List(<<>>)}) :
          Invoke("health_check", net, docuseal_health_check(client, net))
    /\ UNCHANGED <<client, gw>> /\ WebhookUnchanged /\ HealthUnchanged

InvokeCreateSubmission ==
    /\ \E net \in Answers(CreatedJson) :
          Invoke("create_submission", net, create_submission(client, net))
    /\ UNCHANGED <<client, gw>> /\ WebhookUnchanged /\ HealthUnchanged

InvokeGetSubmissionStatus ==
    /\ \E net \in Answers(SubmissionJson) :
          Invoke("get_submission_status", net, get_submission_status(client, net))
    /\ UNCHANGED <<client, gw>> /\ WebhookUnchanged /\ HealthUnchanged

\* The provider's answers to download_document's status read.
DownloadStatusAnswers ==
    { Raise(Exc("ReadTimeout", "")),
      Return(Response(404, "Not Found", Undecodable)) }
    \cup { Return(Response(200, "{...}", DictOf(st \cup docs))) :
             st \in { {<<"status", Str("pending")>>},
                      {<<"status", Str("declined")>>},
                      {<<"status", Str("completed")>>} },
             docs \in Optional("documents",
                               {List(<<>>),
                                List(<<Dict(<<>>)>>),
                                List(<<DictOf({<<"url", Str("")>>})>>),
                                List(<<DictOf({<<"url", Str("https://provider/doc")>>})>>)}) }

\* The provider's answers to the read of the document.
DocumentAnswers ==
    { Raise(Exc("ReadTimeout", "")),
      Raise(Exc("ConnectError", "All connection attempts failed")),
      Return(Response(200, "%PDF-1.7", Undecodable)),
      Return(Response(404, "Not Found", Undecodable)) }

\* Bodies of a template list and of one template.
TemplateJson ==
    { Dict(<<>>),
      DictOf({<<"id", Str("tmpl_1")>>, <<"name", Str("Customer Setup")>>,
              <<"schema", List(<<Dict(<<>>), Dict(<<>>)>>)>>}),
      DictOf({<<"id", Str("tmpl_2")>>, <<"schema", None>>}) }

TemplatesJson ==
    { List(<<>>), Dict(<<>>), None }
    \cup { List(<<t>>) : t \in TemplateJson }
    \cup { List(<<t, Str("x")>>) : t \in TemplateJson }

SubmissionIds == {"sub_1"}

\* Inputs of the notifier's operations.
Recipients == {None, Str("customer@example.com")}
DocumentUrls == {None, Str(""), Str("https://provider/doc"), List(<<Str("https://provider/doc")>>)}

InvokeDownloadDocument ==
    /\ \E submission_id \in SubmissionIds, net \in DownloadStatusAnswers,
          doc_net \in DocumentAnswers :
          /\ invocation' = [op |-> "download_document", submission_id |-> submission_id,
                             net |-> net, doc_net |-> doc_net]
          /\ LET effect == download_document(client, submission_id, net, doc_net) IN
                /\ returned' = effect.ret
                /\ http_requests' = effect.requests
          /\ smtp_sessions' = <<>>
    /\ UNCHANGED <<client, gw>> /\ WebhookUnchanged /\ HealthUnchanged

InvokeListTemplates ==
    /\ \E net \in Answers(TemplatesJson) :
          Invoke("list_templates", net, list_templates(client, net))
    /\ UNCHANGED <<client, gw>> /\ WebhookUnchanged /\ HealthUnchanged

InvokeGetTemplate ==
    /\ \E net \in Answers(TemplateJson) :
          Invoke("get_template", net, get_template(client, net))
    /\ UNCHANGED <<client, gw>> /\ WebhookUnchanged /\ HealthUnchanged

InvokeCancelSubmission ==
    /\ \E net \in Answers({Dict(<<>>)}) :
          Invoke("cancel_submission", net, cancel_submission(client, net))
    /\ UNCHANGED <<client, gw>> /\ WebhookUnchanged /\ HealthUnchanged

InvokeTestConnection ==
    /\ \E smtp \in SmtpOutcomes :
          InvokeNotifier("test_connection", smtp, test_connection(email_service, smtp))
    /\ UNCHANGED <<client, gw>> /\ WebhookUnchanged /\ HealthUnchanged

InvokeSendCompletionEmail ==
    /\ \E smtp \in SmtpOutcomes, recipient_email \in Recipients,
          submission_id \in SubmissionIds, document_url \in DocumentUrls :
          InvokeNotifier("send_completion_email", smtp,
                         send_completion_email(email_service, recipient_email,
                                               submission_id, document_url, smtp))
    /\ UNCHANGED <<client, gw>> /\ WebhookUnchanged /\ HealthUnchanged

InvokeSendReminderEmail ==
    /\ \E smtp \in SmtpOutcomes, recipient_email \in Recipients,
          submission_id \in SubmissionIds, days_pending \in {0, 3} :
          InvokeNotifier("send_reminder_email", smtp,
                         send_reminder_email(email_service, recipient_email, submission_id,
                                             Str("https://x/9"), days_pending, smtp))
    /\ UNCHANGED <<client, gw>> /\ WebhookUnchanged /\ HealthUnchanged

NextClient ==
    \/ InvokeHealthCheck
    \/ InvokeCreateSubmission
    \/ InvokeGetSubmissionStatus
    \/ InvokeDownloadDocument
    \/ InvokeListTemplates
    \/ InvokeGetTemplate
    \/ InvokeCancelSubmission
    \/ InvokeTestConnection
    \/ InvokeSendCompletionEmail
    \/ InvokeSendReminderEmail

SpecClient == InitClient /\ [][NextClient]_vars

-----------------------------------------------------------------------------
(* Spec: webhook events are delivered, each answered at once; the tasks    *)
(* they schedule run afterwards, interleaved, each against any answer of   *)
(* the provider and of the mail server.                                    *)

MaxEvents == 2

CompletedJson ==
    DictOf({<<"status", Str("completed")>>,
            <<"documents", List(<<DictOf({<<"url", Str("https://provider/doc")>>})>>)>>})
PendingJson == DictOf({<<"status", Str("pending")>>})
PendingNoDocumentsJson ==
    DictOf({<<"status", Str("pending")>>, <<"documents", List(<<>>)>>})

\* The provider's answers to a task's status read.
WebhookAnswers ==
    { Raise(Exc("ReadTimeout", "")),
      Raise(Exc("ConnectError", "All connection attempts failed")),
      Return(Response(404, "Not Found", Undecodable)),
      Return(Response(200, "{...}", CompletedJson)),
      Return(Response(200, "{...}", PendingJson)),
      Return(Response(200, "{...}", PendingNoDocumentsJson)) }

\* The mail server's answers to a task's send.
WebhookSmtpOutcomes == {o \in SmtpOutcomes : o.fails \in {"none", "login"}}

Init == Constructed /\ ClientIdle /\ GatewayIdle /\ WebhookIdle /\ HealthIdle

\* POST /api/v1/webhooks/docuseal
DeliverWebhook ==
    /\ Len(events) < MaxEvents
    /\ \E webhook_data \in WebhookEvents :
          LET handled == handle_docuseal_webhook(webhook_data, tasks, Len(events) + 1) IN
          /\ events' = Append(events, webhook_data)
          /\ tasks' = handled.background_tasks
          /\ responses' = Append(responses, handled.ret)
    /\ UNCHANGED emails
    /\ ClientUnchanged /\ GatewayUnchanged /\ HealthUnchanged

\* A scheduled task runs up to the end of its status read.
TaskFetchStatus ==
    /\ \E i \in 1..Len(tasks), net \in WebhookAnswers :
          /\ tasks[i].pc = "scheduled"
          /\ tasks' = [tasks EXCEPT ![i] = after_status(@, get_submission_status(client, net))]
    /\ UNCHANGED <<events, responses, emails>>
    /\ ClientUnchanged /\ GatewayUnchanged /\ HealthUnchanged

\* A task holding a status sends the completion email and returns.
TaskSendEmail ==
    /\ \E i \in 1..Len(tasks), smtp \in WebhookSmtpOutcomes :
          /\ tasks[i].pc = "have_status"
          /\ LET kwargs == completion_email_kwargs(tasks[i], events[tasks[i].event])
                 sent == send_completion_email(email_service, kwargs.recipient_email,
                                               kwargs.submission_id, kwargs.document_url, smtp).ret
             IN  /\ emails' = Append(emails, [task |-> i, kwargs |-> kwargs, sent |-> sent])
                 /\ tasks' = [tasks EXCEPT ![i] = after_email(@, sent)]
    /\ UNCHANGED <<events, responses>>
    /\ ClientUnchanged /\ GatewayUnchanged /\ HealthUnchanged

Next ==
    \/ DeliverWebhook
    \/ TaskFetchStatus
    \/ TaskSendEmail

Spec == Init /\ [][Next]_vars

-----------------------------------------------------------------------------
(* SpecHealth: /health requests, one at a time.                            *)

MaxHealthChecks == 2

\* The provider's answers to the health probe's read of /api/templates.
HealthAnswers ==
    { Raise(e) : e \in TransportFailures }
    \cup { Return(Response(c, b.text, b.json)) :
             c \in {200, 401, 500}, b \in {[text |-> "Not Found", json |-> Undecodable],
                                           [text |-> "[]", json |-> List(<<>>)]} }

InitHealth == Constructed /\ ClientIdle /\ GatewayIdle /\ WebhookIdle /\ HealthIdle

\* GET /health arrives: the handler starts with the provider probe.
HealthStart ==
    /\ hpc \in {"idle", "responded"}
    /\ health_checks < MaxHealthChecks
    /\ hpc' = "running"
    /\ docuseal_status' = None
    /\ email_status' = None
    /\ health_response' = None
    /\ probe_log' = <<"docuseal_start">>
    /\ health_requests' = 0
    /\ UNCHANGED health_checks
    /\ ClientUnchanged /\ GatewayUnchanged /\ WebhookUnchanged

\* await docuseal_client.health_check() returns.
DocusealProbeReturns ==
    /\ hpc = "running"
    /\ docuseal_status = None
    /\ \E net \in HealthAnswers :
          LET effect == docuseal_health_check(client, net) IN
          /\ docuseal_status' = effect.ret.value
          /\ health_requests' = health_requests + effect.requests
    /\ probe_log' = Append(probe_log, "docuseal_end")
    /\ UNCHANGED <<hpc, email_status, health_response, health_checks>>
    /\ ClientUnchanged /\ GatewayUnchanged /\ WebhookUnchanged

\* email_service.test_connection(), a blocking call.
EmailProbe ==
    /\ hpc = "running"
    /\ email_status = None
    /\ email_probe_may_start(docuseal_status)
    /\ \E smtp \in SmtpOutcomes : email_status' = test_connection(email_service, smtp).ret.value
    /\ probe_log' = probe_log \o <<"email_start", "email_end">>
    /\ UNCHANGED <<hpc, docuseal_status, health_response, health_requests, health_checks>>
    /\ ClientUnchanged /\ GatewayUnchanged /\ WebhookUnchanged

\* The handler returns its report.
HealthRespond ==
    /\ hpc = "running"
    /\ docuseal_status # None
    /\ email_status # None
    /\ health_response' = health_report(docuseal_status, email_status)
    /\ hpc' = "responded"
    /\ health_checks' = health_checks + 1
    /\ UNCHANGED <<docuseal_status, email_status, probe_log, health_requests>>
    /\ ClientUnchanged /\ GatewayUnchanged /\ WebhookUnchanged

NextHealth ==
    \/ HealthStart
    \/ DocusealProbeReturns
    \/ EmailProbe
    \/ HealthRespond

SpecHealth == InitHealth /\ [][NextHealth]_vars

-----------------------------------------------------------------------------
(* Gateway: the request/response endpoints.  Each handler is given         *)
(* `upstream`, the outcome of the one client operation it awaits.          *)

\* What the framework sends for a handler's outcome: the returned body with
\* status 200, or the raised HTTPException's status code and detail.
http_response(result) ==
    IF result.raised
    THEN [status_code |-> result.exc.status_code, body |-> [detail |-> result.exc.detail]]
    ELSE [status_code |-> HTTP_OK, body |-> result.value]

\* root
root ==
    Return([service |-> "BDE DocuSeal Service", version |-> "1.0.0",
            status |-> "operational"])

\* initiate_document_signing: the HTTPException raised inside the try block
\* is caught by the handler's own except clause.
initiate_document_signing(customer_email, upstream) ==
    LET submission_result == upstream.value
        body == IF ~submission_result.success
                THEN Raise(HTTPException(HTTP_INTERNAL_ERROR,
                                         "DocuSeal submission failed: "
                                         \o submission_result.error))
                ELSE Return([submission_id |-> submission_result.submission_id,
                             signing_url |-> submission_result.signing_url,
                             status |-> "initiated",
                             message |-> "Document sent to " \o customer_email])
    IN  IF body.raised
        THEN Raise(HTTPException(HTTP_INTERNAL_ERROR,
                                 "Failed to initiate document: " \o StrOfExc(body.exc)))
        ELSE body

\* get_document_status
get_document_status(submission_id, upstream) ==
    IF upstream.raised
    THEN Raise(HTTPException(HTTP_INTERNAL_ERROR,
                             "Failed to get status: " \o StrOfExc(upstream.exc)))
    ELSE LET status == upstream.value IN
         Return([submission_id |-> submission_id,
                 status |-> status.status,
                 completed_at |-> status.completed_at,
                 document_url |-> status.document_url,
                 signer_email |-> status.signer_email])

\* The endpoint download_document of main.py.
gateway_download_document(submission_id, upstream) ==
    LET document_data == upstream.value
        body == IF document_data = None
                THEN Raise(HTTPException(HTTP_NOT_FOUND,
                                         "Document not found or not completed"))
                ELSE Return([submission_id |-> submission_id,
                             download_url |-> document_data.download_url,
                             filename |-> document_data.filename,
                             size_bytes |-> document_data.size_bytes])
    IN  IF body.raised
        THEN Raise(HTTPException(HTTP_INTERNAL_ERROR,
                                 "Failed to download: " \o StrOfExc(body.exc)))
        ELSE body

\* The endpoint list_templates of main.py.
gateway_list_templates(upstream) ==
    LET templates == upstream.value
        count == PyLen(templates)
    IN  IF count.raised
        THEN Raise(HTTPException(HTTP_INTERNAL_ERROR,
                                 "Failed to list templates: " \o StrOfExc(count.exc)))
        ELSE Return([templates |-> templates, count |-> count.value])

\* get_template_details
get_template_details(template_id, upstream) ==
    LET template == upstream.value
        body == IF ~Truthy(template)
                THEN Raise(HTTPException(HTTP_NOT_FOUND, "Template not found"))
                ELSE Return([template |-> template])
    IN  IF body.raised
        THEN Raise(HTTPException(HTTP_INTERNAL_ERROR,
                                 "Failed to get template: " \o StrOfExc(body.exc)))
        ELSE body

\* email_service.test_connection() is called, not awaited, inside the async
\* handler: while it waits for the mail server the event loop runs nothing.
LoopBlocked == hpc = "in_test_connection"

Endpoints == {"root", "initiate", "status", "download", "templates", "template"}

\* A request for one of the endpoints arrives; its handler runs up to the
\* client operation it awaits (root awaits none).
GatewayReceive ==
    /\ gw.pc \in {"idle", "responded"}
    /\ ~LoopBlocked
    /\ \E endpoint \in Endpoints : gw' = [endpoint |-> endpoint, pc |-> "awaiting"]
    /\ ClientUnchanged /\ WebhookUnchanged /\ HealthUnchanged

\* The awaited client operation ends with `upstream`, the handler runs to its
\* end with `result`, and the framework sends the response.
Serve(endpoint, upstream, result) ==
    /\ gw = [endpoint |-> endpoint, pc |-> "awaiting"]
    /\ ~LoopBlocked
    /\ gw' = [endpoint |-> endpoint, pc |-> "responded", upstream |-> upstream,
              response |-> http_response(result)]
    /\ ClientUnchanged /\ WebhookUnchanged /\ HealthUnchanged

ServeRoot ==
    /\ gw.endpoint = "root"
    /\ Serve("root", Return(None), root)

ServeInitiate(nets) ==
    /\ gw.endpoint = "initiate"
    /\ \E net \in nets :
           LET upstream == create_submission(client, net).ret IN
           Serve("initiate", upstream,
                 initiate_document_signing("customer@example.com", upstream))

ServeStatus(nets) ==
    /\ gw.endpoint = "status"
    /\ \E net \in nets, submission_id \in SubmissionIds :
           LET upstream == get_submission_status(client, net).ret IN
           Serve("status", upstream, get_document_status(submission_id, upstream))

ServeDownload(nets, doc_nets) ==
    /\ gw.endpoint = "download"
    /\ \E net \in nets, doc_net \in doc_nets, submission_id \in SubmissionIds :
           LET upstream == download_document(client, submission_id, net, doc_net).ret IN
           Serve("download", upstream, gateway_download_document(submission_id, upstream))

ServeTemplates(nets) ==
    /\ gw.endpoint = "templates"
    /\ \E net \in nets :
           LET upstream == list_templates(client, net).ret IN
           Serve("templates", upstream, gateway_list_templates(upstream))

ServeTemplate(nets) ==
    /\ gw.endpoint = "template"
    /\ \E net \in nets :
           LET upstream == get_template(client, net).ret IN
           Serve("template", upstream, get_template_details("tmpl_1", upstream))

-----------------------------------------------------------------------------
(* SpecGateway: requests are served one at a time against every answer of  *)
(* the provider.                                                           *)

InitGateway == Constructed /\ ClientIdle /\ GatewayIdle /\ WebhookIdle /\ HealthIdle

RespondRoot == ServeRoot
RespondInitiate == ServeInitiate(Answers(CreatedJson))
RespondStatus == ServeStatus(Answers(SubmissionJson))
RespondDownload == ServeDownload(DownloadStatusAnswers, DocumentAnswers)
RespondTemplates == ServeTemplates(Answers(TemplatesJson))
RespondTemplate == ServeTemplate(Answers(TemplateJson))

NextGateway ==
    \/ GatewayReceive
    \/ RespondRoot
    \/ RespondInitiate
    \/ RespondStatus
    \/ RespondDownload
    \/ RespondTemplates
    \/ RespondTemplate

SpecGateway == InitGateway /\ [][NextGateway]_vars

-----------------------------------------------------------------------------
(* SpecLive: the endpoints and /health served on one event loop, with the  *)
(* fairness the code's scheduling gives.  Every provider call is made with  *)
(* timeout = self.timeout, so it ends; a handler that can run does run.    *)
(* smtplib.SMTP(host, port) is given no timeout, so nothing bounds the     *)
(* wait for the mail server.                                               *)

\* The provider answers, or the call times out.
LiveAnswers ==
    { Raise(Exc("ReadTimeout", "")),
      Return(Response(404, "Not Found", Undecodable)),
      Return(Response(200, "{}", Dict(<<>>))) }

InitLive == Constructed /\ ClientIdle /\ GatewayIdle /\ WebhookIdle /\ HealthIdle

\* health_check calls email_service.test_connection(): smtplib.SMTP(host,
\* port) connects and waits for the server's greeting.
EmailProbeStarts ==
    /\ hpc = "running"
    /\ email_status = None
    /\ email_probe_may_start(docuseal_status)
    /\ hpc' = "in_test_connection"
    /\ probe_log' = Append(probe_log, "email_start")
    /\ UNCHANGED <<docuseal_status, email_status, health_response, health_requests,
                   health_checks>>
    /\ ClientUnchanged /\ GatewayUnchanged /\ WebhookUnchanged

\* The mail server answers or refuses, and test_connection returns.
MailServerAnswers ==
    /\ hpc = "in_test_connection"
    /\ \E smtp \in SmtpOutcomes : email_status' = test_connection(email_service, smtp).ret.value
    /\ hpc' = "running"
    /\ probe_log' = Append(probe_log, "email_end")
    /\ UNCHANGED <<docuseal_status, health_response, health_requests, health_checks>>
    /\ ClientUnchanged /\ GatewayUnchanged /\ WebhookUnchanged

LiveRespond ==
    \/ ServeRoot
    \/ ServeInitiate(LiveAnswers)
    \/ ServeStatus(LiveAnswers)
    \/ ServeDownload(LiveAnswers, LiveAnswers)
    \/ ServeTemplates(LiveAnswers)
    \/ ServeTemplate(LiveAnswers)

NextLive ==
    \/ GatewayReceive
    \/ LiveRespond
    \/ HealthStart
    \/ DocusealProbeReturns
    \/ EmailProbeStarts
    \/ MailServerAnswers
    \/ HealthRespond

SpecLive ==
    /\ InitLive
    /\ [][NextLive]_vars
    /\ WF_vars(LiveRespond)
    /\ WF_vars(DocusealProbeReturns)
    /\ WF_vars(EmailProbeStarts)
    /\ WF_vars(HealthRespond)

-----------------------------------------------------------------------------
(* Claims on the webhook endpoint and the notification task, under Spec.   *)

Processed == Return([status |-> "processed"])

TasksOf(i) == {k \in 1..Len(tasks) : tasks[k].event = i}
EmailsOf(k) == {j \in 1..Len(emails) : emails[j].task = k}

\* C1: every delivered webhook event is acknowledged with {status:
\* "processed"}; a "form.completed" event schedules exactly one notification
\* task and any other event type schedules none, so the number of tasks
\* scheduled equals the number of "form.completed" events delivered,
\* duplicates included.
C1_DispatchPerCompletedEvent ==
    /\ Len(responses) = Len(events)
    /\ \A i \in 1..Len(events) :
          /\ responses[i] = Processed
          /\ Cardinality(TasksOf(i)) =
                (IF events[i].event_type = "form.completed" THEN 1 ELSE 0)
    /\ Len(tasks) =
          Cardinality({i \in 1..Len(events) : events[i].event_type = "form.completed"})

C1_Witness ==
    /\ Len(events) = 2
    /\ events[1].event_type = "form.completed"
    /\ events[2] = events[1]
    /\ Len(tasks) = 2

\* C2: the step that answers a webhook event only schedules the notification
\* task: when the acknowledgement is sent the task has not started (no status
\* read, no email), no other task has moved, and every task's event has been
\* answered before the task runs.
C2_AckBeforeTaskRuns ==
    /\ [](\A k \in 1..Len(tasks) : tasks[k].event <= Len(responses))
    /\ [][Len(responses') > Len(responses) =>
            /\ emails' = emails
            /\ \A k \in 1..Len(tasks') :
                  IF k <= Len(tasks)
                  THEN tasks'[k] = tasks[k]
                  ELSE tasks'[k].pc = "scheduled" /\ tasks'[k].fetches = 0]_vars

C2_Witness ==
    \E k \in 1..Len(tasks) :
        /\ tasks[k].pc = "scheduled"
        /\ responses[tasks[k].event] = Processed

\* C3: the notification task never raises: a fault of the status read is
\* caught and logged, the task returns without sending an email and without
\* reading the status again; a failed send returns False; and the responses
\* already sent stay as they were.
C3_TaskNeverRaises ==
    /\ \A k \in 1..Len(tasks) :
          /\ tasks[k].pc \in {"scheduled", "have_status", "returned"}
          /\ tasks[k].fetches <= 1
          /\ Cardinality(EmailsOf(k)) <= 1
          /\ tasks[k].caught # None =>
                /\ tasks[k].pc = "returned"
                /\ tasks[k].fetches = 1
                /\ EmailsOf(k) = {}
    /\ \A j \in 1..Len(emails) : ~emails[j].sent.raised
    /\ \A i \in 1..Len(responses) : responses[i] = Processed

C3_Witness ==
    \E k \in 1..Len(tasks) :
        /\ tasks[k].pc = "returned"
        /\ tasks[k].caught = HTTPException(HTTP_GATEWAY_TIMEOUT, "DocuSeal API timeout")
        /\ EmailsOf(k) = {}
        /\ responses[tasks[k].event] = Processed

\* C4: a completion email is sent only by a task that has read the status
\* from the provider, and the document_url it passes is the one that read
\* returned, whatever document_url the webhook payload carried.
C4_EmailUsesRefetchedUrl ==
    \A j \in 1..Len(emails) :
        LET task == tasks[emails[j].task] IN
        /\ task.fetches = 1
        /\ task.status # None
        /\ emails[j].kwargs.document_url = task.status.document_url

C4_Witness ==
    \E j \in 1..Len(emails) :
        LET webhook_data == events[tasks[emails[j].task].event] IN
        /\ webhook_data.document_url # None
        /\ emails[j].kwargs.document_url # webhook_data.document_url

\* C19: a task whose status read returned without a fault calls
\* send_completion_email exactly once before it returns, with the submitter
\* email the webhook carried as recipient (None when it carried none),
\* whatever status the read reported; a task whose read faulted calls it
\* never.
C19_EmailSentWheneverStatusRead ==
    \A k \in 1..Len(tasks) :
        tasks[k].pc = "returned" =>
            IF tasks[k].status # None
            THEN /\ Cardinality(EmailsOf(k)) = 1
                 /\ \A j \in EmailsOf(k) :
                       emails[j].kwargs.recipient_email =
                          events[tasks[k].event].submitter_email
            ELSE EmailsOf(k) = {}

C19_Witness ==
    \E k \in 1..Len(tasks) :
        /\ tasks[k].pc = "returned"
        /\ tasks[k].status # None
        /\ tasks[k].status.status = Str("pending")
        /\ events[tasks[k].event].submitter_email = None
        /\ \E j \in EmailsOf(k) : emails[j].kwargs.recipient_email = None

-----------------------------------------------------------------------------
(* Claims on /health, under SpecHealth.                                    *)

\* C5: /health never faults, and answers "healthy" exactly when both the
\* provider probe and the mail probe report "healthy", "degraded" otherwise.
C5_HealthyIffBothHealthy ==
    hpc = "responded" =>
        /\ ~health_response.raised
        /\ health_response.value.services =
              [docuseal |-> docuseal_status, email |-> email_status]
        /\ health_response.value.status =
              (IF docuseal_status.status = "healthy" /\ email_status.status = "healthy"
               THEN "healthy" ELSE "degraded")

C5_Witness ==
    /\ hpc = "responded"
    /\ docuseal_status.status = "healthy"
    /\ email_status.status = "error"
    /\ health_response.value.status = "degraded"

\* C6 as claimed: the two probes run concurrently, started together: while
\* the provider probe is outstanding the mail probe has been started.
C6_ProbesStartedTogether ==
    (hpc = "running" /\ docuseal_status = None) => InSeq("email_start", probe_log)

\* C6, amended: the probes run one after the other: the mail probe starts
\* only after the provider probe has returned its report.
C6_MailProbeAfterProviderProbe ==
    /\ email_status # None => docuseal_status # None
    /\ \A i \in 1..Len(probe_log) :
          probe_log[i] = "email_start" =>
              \E j \in 1..(i - 1) : probe_log[j] = "docuseal_end"

C6_Witness ==
    probe_log = <<"docuseal_start", "docuseal_end", "email_start", "email_end">>

-----------------------------------------------------------------------------
(* Claims on the provider client, under SpecClient.                        *)

Invoked(op) == invocation.op = op

\* The provider answered with a response carrying `code`.
AnsweredWith(code) == ~invocation.net.raised /\ invocation.net.value.status_code = code

\* C7: a client constructed with an empty API token is constructed without
\* raising, and its health_check returns status "error" with the reason
\* "API token not configured" and issues no HTTP request.
C7_EmptyTokenNotConfigured ==
    /\ \A u \in BaseUrls : ~DocuSealClient(u, "").raised
    /\ (Invoked("health_check") /\ client.api_token = "") =>
          /\ returned = Return([status |-> "error", error |-> "API token not configured"])
          /\ http_requests = 0

C7_Witness ==
    /\ Invoked("health_check")
    /\ client.api_token = ""
    /\ ~returned.raised
    /\ returned.value.status = "error"

\* C8: create_submission never raises; for every answer other than a 201
\* response (another status code, a timeout, a transport error) it returns
\* success = False with a non-empty error string, which for a response
\* contains the provider's status code.
C8_CreateFailureReported ==
    (Invoked("create_submission") /\ ~AnsweredWith(HTTP_CREATED)) =>
        /\ ~returned.raised
        /\ returned.value.success = FALSE
        /\ returned.value.error # ""
        /\ ~invocation.net.raised =>
              Contains(returned.value.error, ToString(invocation.net.value.status_code))

\* The signing URL the provider's JSON object names: the first submitter's
\* embed_src when there is one, else None.
FirstEmbedSrc(json) ==
    IF /\ "submitters" \in DOMAIN json.d
       /\ Len(json.d["submitters"].l) > 0
       /\ "embed_src" \in DOMAIN json.d["submitters"].l[1].d
    THEN json.d["submitters"].l[1].d["embed_src"]
    ELSE None

\* C9: for every 201 response carrying a JSON object, create_submission
\* returns success = True, the provider's id as submission_id, and as
\* signing_url the first submitter's embed_src when present and None
\* otherwise, also when the response carries no submitter entry.
C9_CreatedResultMatchesProvider ==
    (/\ Invoked("create_submission")
     /\ AnsweredWith(HTTP_CREATED)
     /\ invocation.net.value.json # Undecodable) =>
        LET json == invocation.net.value.json IN
        /\ ~returned.raised
        /\ returned.value.success = TRUE
        /\ returned.value.submission_id =
              (IF "id" \in DOMAIN json.d THEN json.d["id"] ELSE None)
        /\ returned.value.signing_url = FirstEmbedSrc(json)

\* The kind of a fault: its exception class and the status code it carries.
FaultKind(e) == <<e.type, e.status_code>>

\* C10: get_submission_status on a timeout raises the gateway-timeout fault
\* (504), and the fault it raises for any other answer (a non-success status
\* of any code, another transport error) is of a different kind.
C10_TimeoutFaultDistinctByKind ==
    Invoked("get_submission_status") =>
        IF invocation.net.raised /\ IsTimeoutException(invocation.net.exc)
        THEN /\ returned.raised
             /\ returned.exc = HTTPException(HTTP_GATEWAY_TIMEOUT, "DocuSeal API timeout")
        ELSE returned.raised =>
               FaultKind(returned.exc) # <<"HTTPException", HTTP_GATEWAY_TIMEOUT>>

\* The document URL a status response offers: the first document's url when
\* the response is a 200 carrying a JSON object with status "completed" and a
\* non-empty url, else None.
OfferedDocumentUrl(net) ==
    IF /\ ~net.raised
       /\ net.value.status_code = HTTP_OK
       /\ net.value.json # Undecodable
       /\ "status" \in DOMAIN net.value.json.d
       /\ net.value.json.d["status"] = Str("completed")
       /\ "documents" \in DOMAIN net.value.json.d
       /\ Len(net.value.json.d["documents"].l) > 0
       /\ "url" \in DOMAIN net.value.json.d["documents"].l[1].d
       /\ Truthy(net.value.json.d["documents"].l[1].d["url"])
    THEN net.value.json.d["documents"].l[1].d["url"]
    ELSE None

\* C13: download_document never raises, also when the status read faults;
\* whenever the status read does not report status "completed" with a
\* document URL it returns None and has issued the status read only, never
\* the read of the document.
C13_NoFetchUnlessCompletedWithUrl ==
    Invoked("download_document") =>
        /\ ~returned.raised
        /\ OfferedDocumentUrl(invocation.net) = None =>
              /\ returned.value = None
              /\ http_requests = 1

C13_Witness ==
    /\ Invoked("download_document")
    /\ AnsweredWith(HTTP_OK)
    /\ invocation.net.value.json.d["status"] = Str("pending")
    /\ "documents" \in DOMAIN invocation.net.value.json.d
    /\ OfferedDocumentUrl(invocation.net) = None
    /\ returned = Return(None)
    /\ http_requests = 1

C13_WitnessFetched ==
    /\ Invoked("download_document")
    /\ OfferedDocumentUrl(invocation.net) # None
    /\ http_requests = 2
    /\ returned.value # None

\* C14: list_templates, get_template, cancel_submission and the notifier's
\* send operations never raise; on every failure (a transport error, a
\* response other than 200, an SMTP step that fails) list_templates returns
\* the empty list, get_template None, cancel_submission False (it returns True
\* exactly on a 200 response) and the send operations False.
C14_SoftFailuresReturnSentinel ==
    /\ Invoked("list_templates") =>
          /\ ~returned.raised
          /\ ~AnsweredWith(HTTP_OK) => returned.value = List(<<>>)
    /\ Invoked("get_template") =>
          /\ ~returned.raised
          /\ ~AnsweredWith(HTTP_OK) => returned.value = None
    /\ Invoked("cancel_submission") =>
          /\ ~returned.raised
          /\ returned.value = AnsweredWith(HTTP_OK)
    /\ (Invoked("send_completion_email") \/ Invoked("send_reminder_email")) =>
          /\ ~returned.raised
          /\ invocation.smtp.fails # "none" => returned.value = FALSE

C14_Witness ==
    /\ Invoked("get_template")
    /\ invocation.net.raised
    /\ returned = Return(None)

C14_WitnessSent ==
    /\ Invoked("send_reminder_email")
    /\ invocation.smtp.fails = "send_message"
    /\ returned = Return(FALSE)

\* The operations that talk to the provider, and those that talk to the mail
\* server.
ProviderOps == {"health_check", "create_submission", "get_submission_status",
                "download_document", "list_templates", "get_template",
                "cancel_submission"}
NotifierOps == {"test_connection", "send_completion_email", "send_reminder_email"}

\* C15: no outbound call is retried.  Every provider operation issues at most
\* one HTTP request, except download_document, which issues at most one status
\* read and then at most one read of the document, the second only after a
\* status read that offered a document; every notifier operation attempts at
\* most one SMTP session; provider operations open no SMTP session and
\* notifier operations send no HTTP request.
C15_AtMostOneAttempt ==
    /\ invocation.op \in ProviderOps =>
          /\ smtp_sessions = <<>>
          /\ IF Invoked("download_document")
             THEN /\ http_requests \in {1, 2}
                  /\ http_requests = 2 => OfferedDocumentUrl(invocation.net) # None
             ELSE http_requests \in {0, 1}
    /\ invocation.op \in NotifierOps =>
          /\ http_requests = 0
          /\ Len(smtp_sessions) <= 1

C15_Witness ==
    /\ Invoked("list_templates")
    /\ invocation.net.raised
    /\ http_requests = 1
    /\ returned = Return(List(<<>>))

C15_WitnessEmail ==
    /\ Invoked("send_completion_email")
    /\ invocation.smtp.fails = "login"
    /\ Len(smtp_sessions) = 1
    /\ returned = Return(FALSE)

\* A session trace that leaves nothing open: either the connection was never
\* made, or the session that began with "connect" ended with "quit".
Closed(trace) ==
    \/ trace = <<>>
    \/ /\ trace[1] = "connect"
       /\ trace[Len(trace)] = "quit"
       /\ \A i \in 2..(Len(trace) - 1) : trace[i] \notin {"connect", "quit"}

\* C16: when test_connection or a send operation has returned, every SMTP
\* session it opened is closed, whichever step failed.
C16_SessionsClosedOnReturn ==
    invocation.op \in NotifierOps =>
        \A i \in 1..Len(smtp_sessions) : Closed(smtp_sessions[i])

C16_Witness ==
    /\ Invoked("test_connection")
    /\ invocation.smtp.fails = "login"
    /\ returned.value.status = "error"
    /\ smtp_sessions = << <<"connect", "starttls", "login", "quit">> >>

C16_WitnessSend ==
    /\ Invoked("send_completion_email")
    /\ invocation.smtp.fails = "starttls"
    /\ smtp_sessions = << <<"connect", "starttls", "quit">> >>

\* The field `inner` of the first entry of the list the provider's JSON
\* object carries under `outer`: its value when there is a first entry that
\* names it, else None.
FirstEntry(json, outer, inner) ==
    IF /\ outer \in DOMAIN json.d
       /\ Len(json.d[outer].l) > 0
       /\ inner \in DOMAIN json.d[outer].l[1].d
    THEN json.d[outer].l[1].d[inner]
    ELSE None

\* C18: for every 200 response carrying a JSON object, get_submission_status
\* returns a status record without raising, with the provider's status,
\* the first document's url and the first submitter's email when present and
\* None otherwise, also when the response lists no document or no submitter.
C18_StatusRecordForEverySuccess ==
    (/\ Invoked("get_submission_status")
     /\ AnsweredWith(HTTP_OK)
     /\ invocation.net.value.json # Undecodable) =>
        LET json == invocation.net.value.json IN
        /\ ~returned.raised
        /\ returned.value.status =
              (IF "status" \in DOMAIN json.d THEN json.d["status"] ELSE None)
        /\ returned.value.document_url = FirstEntry(json, "documents", "url")
        /\ returned.value.signer_email = FirstEntry(json, "submitters", "email")

-----------------------------------------------------------------------------
(* Claims on the request/response endpoints, under SpecGateway.            *)

Responded(endpoint) == gw.pc = "responded" /\ gw.endpoint = endpoint

\* C11: when get_submission_status raises its fault, the status endpoint
\* responds with the status code that fault carries (the provider's code, or
\* 504 for a timeout), not with another code.
C11_StatusEndpointCarriesUpstreamCode ==
    (Responded("status") /\ gw.upstream.raised) =>
        gw.response.status_code = gw.upstream.exc.status_code

\* C12: when the client returns None for a download or for a template
\* lookup, the download endpoint and the template-details endpoint respond
\* with status 404.
C12_NotFoundWhenClientReturnsNone ==
    ((Responded("download") \/ Responded("template")) /\ gw.upstream = Return(None)) =>
        gw.response.status_code = HTTP_NOT_FOUND

-----------------------------------------------------------------------------
(* Claims on termination, under SpecLive.                                  *)

\* C17: every request the gateway has taken up is eventually responded to,
\* the /health request whose mail probe opens an SMTP session included,
\* given that every provider call ends.
C17_EveryOperationResponds ==
    /\ (gw.pc = "awaiting") ~> (gw.pc = "responded")
    /\ (hpc \in {"running", "in_test_connection"}) ~> (hpc = "responded")

=============================================================================
